---------------------------- MODULE Spec2Model ----------------------------
(***************************************************************************)
(* tap-azure-log-analytics: the time-window extraction engine of           *)
(* AzureLogAnalyticsStream (src/tap_azure_log_analytics/client.py).        *)
(*                                                                         *)
(* Time is counted in minutes.  A datetime is a record                     *)
(*   [wall |-> minutes shown by its fields, aware |-> tzinfo is not None,  *)
(*    off |-> its UTC offset in minutes (0 when naive)]                    *)
(* and the instant an aware datetime denotes is wall - off.                *)
(*                                                                         *)
(* Two specifications share the state:                                     *)
(*   SpecFn  calls the pure methods _calculate_timespan and                *)
(*           _chunk_timespan on inputs drawn from bounded sets;            *)
(*   Spec    runs the generator get_records step by step against a         *)
(*           transport that answers each query nondeterministically.       *)
(***************************************************************************)
EXTENDS Integers, Sequences, FiniteSets, TLC

VARIABLES
    config,           \* tap configuration: [start_date]
    query_config,     \* the query definition: [query, timespan_days, chunk_size_days]
    replication_key,  \* self.replication_key: "" stands for None
    watermark,        \* what get_starting_timestamp(context) returns
    now,              \* datetime.now(timezone.utc), in minutes
    fn,               \* SpecFn: the last pure call and its result
    pc,               \* get_records: where the generator stands
    start_time,       \* get_records: locals of the generator
    end_time,
    chunk_days,
    chunks,
    idx,              \* index in chunks of the chunk being processed
    response,         \* the response of the current chunk's query
    ti,               \* index of the current table of the response
    ri,               \* index of the current row of that table
    calls,            \* every client.query_workspace call made, in order
    responses,        \* the answer each of those calls got, in order
    emitted,          \* every record handed to the consumer, in order
    log,              \* every logger call, in order
    error,            \* the exception that left the generator, "" when none
    _schema,          \* self._schema: the cached schema, unset while None
    probes,           \* every probe query of _generate_schema, with its outcome
    returned,         \* what each access to the schema property returned
    schema_error      \* the exception that left a schema access, "" when none

vars == <<config, query_config, replication_key, watermark, now, fn, pc,
          start_time, end_time, chunk_days, chunks, idx, response, ti, ri,
          calls, responses, emitted, log, error,
          _schema, probes, returned, schema_error>>

schVars == <<_schema, probes, returned, schema_error>>

cfgVars == <<config, query_config, replication_key, watermark, now>>

genVars == <<pc, start_time, end_time, chunk_days, chunks, idx, response,
             ti, ri, calls, responses, emitted, log, error>>

(***************************************************************************)
(* Program constants.                                                      *)
(***************************************************************************)
\* timedelta(minutes=5): the landing-delay margin subtracted from now
LagMinutes == 5

\* timedelta(days=1), the default lookback
DefaultLookbackDays == 1

\* query_config.get("chunk_size_days", 1)
DefaultChunkDays == 1

\* minutes in timedelta(days=1)
Day == 1440

(***************************************************************************)
(* Bounds of the model.                                                    *)
(***************************************************************************)
\* the wall clock reads day MaxDay (plus a few minutes) when the run starts
MaxDay == 6

\* the largest chunk_days / timespan_days drawn
MaxWidth == 2

(***************************************************************************)
(* Values.                                                                 *)
(***************************************************************************)
\* a dict entry or attribute holding an optional int:
\* the key is absent, holds None, or holds the int v
Absent == [k |-> "absent", v |-> 0]
Null == [k |-> "null", v |-> 0]
IntV(n) == [k |-> "int", v |-> n]

\* a datetime object
Dt(w, a, o) == [wall |-> w, aware |-> a, off |-> o]
Utc(w) == Dt(w, TRUE, 0)
Naive(w) == Dt(w, FALSE, 0)

\* Python None where a datetime is expected
NoneDt == [wall |-> 0, aware |-> FALSE, off |-> -1]
IsNone(d) == d = NoneDt

\* the instant of an aware datetime
Instant(d) == d.wall - d.off

\* datetime.__lt__ / __ge__ / __eq__ on aware datetimes compare instants
DtLt(a, b) == Instant(a) < Instant(b)
DtGe(a, b) == Instant(a) >= Instant(b)
DtEq(a, b) == a.aware = b.aware /\ Instant(a) = Instant(b)

\* datetime + timedelta(minutes=m): the fields move, tzinfo stays
DtPlus(d, m) == [d EXCEPT !.wall = d.wall + m]

\* datetime.replace(tzinfo=timezone.utc): the fields stay, tzinfo is set
ReplaceTzUtc(d) == [d EXCEPT !.aware = TRUE, !.off = 0]

\* DtMin without the clamp to the interval's end
DtMinNoClamp(a, b) == a

\* min(a, b) of the built-in: b only when b < a
DtMin(a, b) == IF DtLt(b, a) THEN b ELSE a

(***************************************************************************)
(* config["start_date"]: absent, None, an ISO-8601 string                  *)
(* [wall, suffix] with suffix "", "Z" or "+01:00", or a datetime object.   *)
(***************************************************************************)
NoStartDate == [k |-> "absent", wall |-> 0, suffix |-> "", dt |-> NoneDt]
NullStartDate == [k |-> "null", wall |-> 0, suffix |-> "", dt |-> NoneDt]
StrStartDate(w, s) == [k |-> "str", wall |-> w, suffix |-> s, dt |-> NoneDt]
DtStartDate(d) == [k |-> "datetime", wall |-> 0, suffix |-> "", dt |-> d]

\* dateutil.parser.parse of a well-formed ISO-8601 string: no suffix gives a
\* naive datetime, "Z" gives UTC, "+01:00" gives a fixed offset of 60 minutes
parse(s) ==
    Dt(s.wall, s.suffix # "",
       IF s.suffix = "+01:00" THEN 60 ELSE 0)

\* self.config.get("start_date")
ConfigStartDate(cfg) == cfg.start_date

\* bool(timespan_days): None and 0 are falsy
Truthy(x) == x.k = "int" /\ x.v # 0

\* getattr(self, "query_config", {}).get("timespan_days")
GetTimespanDays(qc) == IF qc.timespan_days.k = "absent" THEN Null ELSE qc.timespan_days

\* getattr(self, "query_config", {}).get("chunk_size_days", 1)
GetChunkSizeDays(qc) ==
    IF qc.chunk_size_days.k = "absent" THEN IntV(DefaultChunkDays)
    ELSE qc.chunk_size_days


(***************************************************************************)
(* _calculate_timespan (client.py 135-182).                                *)
(***************************************************************************)
\* EndTime without the landing-delay margin
EndTimeNoLag(nw) == Utc(nw)

\* end_time = datetime.now(timezone.utc) - timedelta(minutes=5)
EndTime(nw) == Utc(nw - LagMinutes)

\* LookbackStart whose default is the end itself instead of one day back
LookbackStartNoDefault(qc, end) ==
    LET timespan_days == GetTimespanDays(qc)
    IN  IF Truthy(timespan_days)
        THEN DtPlus(end, -(timespan_days.v * Day))
        ELSE end

\* the else branch of "if start_time is not None": timespan_days when it is
\* truthy, one day otherwise, both counted back from end_time
LookbackStart(qc, end) ==
    LET timespan_days == GetTimespanDays(qc)
    IN  IF Truthy(timespan_days)
        THEN DtPlus(end, -(timespan_days.v * Day))
        ELSE DtPlus(end, -(DefaultLookbackDays * Day))

\* the branch without a replication key: config start_date (parsed when it
\* is a string), else the lookback
ConfigStart(cfg, qc, end) ==
    LET sd == ConfigStartDate(cfg)
    IN  IF sd.k \notin {"absent", "null"}
        THEN IF sd.k = "str" THEN parse(sd) ELSE sd.dt
        ELSE LookbackStart(qc, end)

\* RawStart that lets a configured start_date win over the replication key
RawStartConfigFirst(cfg, qc, rk, wm, end) ==
    IF ConfigStartDate(cfg).k \notin {"absent", "null"} \/ rk = ""
    THEN ConfigStart(cfg, qc, end)
    ELSE wm

\* "if self.replication_key": the state's timestamp (None when there is no
\* state), and nothing else is consulted on this branch
RawStart(cfg, qc, rk, wm, end) ==
    IF rk # "" THEN wm ELSE ConfigStart(cfg, qc, end)

\* "Ensure timezone awareness": a naive start is stamped UTC
EnsureAware(s) ==
    IF ~IsNone(s) /\ ~s.aware THEN ReplaceTzUtc(s) ELSE s

\* "Ensure we have a valid start_time": None becomes end_time - 1 day
EnsureStart(s, end) ==
    IF IsNone(s) THEN DtPlus(end, -(DefaultLookbackDays * Day)) ELSE s

\* the pair (start_time, end_time) the method returns
_calculate_timespan(cfg, qc, rk, wm, nw) ==
    LET end == EndTime(nw)
    IN  <<EnsureStart(EnsureAware(RawStart(cfg, qc, rk, wm, end)), end), end>>

(***************************************************************************)
(* _chunk_timespan (client.py 184-213).  chunk_days is the value the       *)
(* caller passes: an int, or None when the configuration holds null.       *)
(* The result is [err, chunks]: err is "TypeError" when the comparison     *)
(* chunk_days <= 0 is reached with None.                                   *)
(***************************************************************************)
RECURSIVE ChunkLoop(_, _, _, _)
\* the while loop: chunks so far, current_start the cursor
ChunkLoop(current_start, end, days, acc) ==
    IF DtLt(current_start, end)
    THEN LET current_end == DtMin(DtPlus(current_start, days * Day), end)
         IN  ChunkLoop(current_end, end, days,
                       Append(acc, <<current_start, current_end>>))
    ELSE acc

\* EmptySpan with a strict comparison: start == end is let through
EmptySpanStrict(s, e) == DtLt(e, s)

\* "if start_time >= end_time: return []"
EmptySpan(s, e) == DtGe(s, e)

\* InvalidChunkDays that takes a chunk size of one day for invalid too
InvalidChunkDaysUpToOne(d) == d <= 1

\* "if chunk_days <= 0": the invalid chunk size
InvalidChunkDays(d) == d <= 0

_chunk_timespan(s, e, d) ==
    IF EmptySpan(s, e) THEN [err |-> "", chunks |-> <<>>]
    ELSE IF d.k # "int" THEN [err |-> "TypeError", chunks |-> <<>>]
    ELSE IF InvalidChunkDays(d.v) THEN [err |-> "", chunks |-> << <<s, e>> >>]
    ELSE [err |-> "", chunks |-> ChunkLoop(s, e, d.v, <<>>)]

(***************************************************************************)
(* The transport's answers.  A table carries ordered column names, the     *)
(* parallel declared types, and rows of positional values.                 *)
(***************************************************************************)
T1 ==
    [columns |-> <<"TimeGenerated", "Message">>,
     columns_types |-> <<"datetime", "string">>,
     rows |-> << <<"t1", "a">>, <<"t2", "b">> >>]

\* a table without rows
T0 ==
    [columns |-> <<"Message">>, columns_types |-> <<"string">>, rows |-> <<>>]

T2 ==
    [columns |-> <<"Id">>, columns_types |-> <<"int">>, rows |-> << <<"7">> >>]

TableLists == {<<>>, <<T1, T0, T2>>}

\* LogsQueryResult (status SUCCESS, tables), LogsQueryPartialResult (status
\* PARTIAL, partial_data), a result with any other status, and the two ways
\* query_workspace raises: HttpResponseError, and an error that is not one
\* (ServiceRequestError: the request never got an HTTP response)
Responses ==
    {[status |-> "SUCCESS", tables |-> tl, partial_data |-> <<>>] : tl \in TableLists}
    \cup {[status |-> "PARTIAL", tables |-> <<>>, partial_data |-> tl] : tl \in TableLists}
    \cup {[status |-> s, tables |-> <<>>, partial_data |-> <<>>] :
             s \in {"FAILURE", "HttpResponseError", "ServiceRequestError"}}

NoResponse == [status |-> "", tables |-> <<>>, partial_data |-> <<>>]

\* IteratedTables that drops the data of a partial result
IteratedTablesDropPartial(resp) ==
    IF resp.status = "SUCCESS" THEN resp.tables ELSE <<>>

\* the tables get_records iterates: response.tables on SUCCESS,
\* response.partial_data on PARTIAL, nothing for any other status
IteratedTables(resp) ==
    IF resp.status = "SUCCESS" THEN resp.tables
    ELSE IF resp.status = "PARTIAL" THEN resp.partial_data
    ELSE <<>>

Min2(a, b) == IF a < b THEN a ELSE b

\* Record that pairs the column names with the row's values from its end
RecordReversed(columns, row) ==
    LET n == Min2(Len(columns), Len(row))
    IN  [c \in {columns[i] : i \in 1..n} |->
            row[n + 1 - (CHOOSE i \in 1..n : columns[i] = c)]]

\* dict(zip(table.columns, row)): zip stops at the shorter of the two, and
\* a column name that occurs twice keeps the value of its last occurrence
Record(columns, row) ==
    LET n == Min2(Len(columns), Len(row))
        last(c) == CHOOSE i \in 1..n :
                       columns[i] = c /\ \A j \in 1..n : columns[j] = c => j <= i
    IN  [c \in {columns[i] : i \in 1..n} |-> row[last(c)]]

\* the number of rows over all the tables of a list
RECURSIVE RowCount(_)
RowCount(tl) ==
    IF tl = <<>> THEN 0 ELSE Len(Head(tl).rows) + RowCount(Tail(tl))

(***************************************************************************)
(* The type mapper and the schema inferred from a response's tables        *)
(* (client.py 80-133).  A singer type is written by the name of its        *)
(* typing helper; a schema is the ordered list of its properties.          *)
(***************************************************************************)
\* the declared type names the mapper is applied to: the ten Log Analytics
\* types, spellings that differ in case, and names the table does not hold
DeclaredTypes ==
    {"string", "guid", "long", "int", "real", "decimal", "bool", "datetime",
     "timespan", "dynamic", "INT", "Dynamic", "DateTime", "object", "uint", ""}

\* column_type.lower() over the declared type names
Lower(s) ==
    CASE s = "INT" -> "int"
      [] s = "Dynamic" -> "dynamic"
      [] s = "DateTime" -> "datetime"
      [] OTHER -> s

\* the keys of the dict type_mapping
MappedTypes ==
    {"string", "guid", "long", "int", "real", "decimal", "bool", "datetime",
     "timespan", "dynamic"}

\* the dict type_mapping
type_mapping(key) ==
    CASE key = "string" -> "StringType"
      [] key = "guid" -> "UUIDType"
      [] key = "long" -> "IntegerType"
      [] key = "int" -> "IntegerType"
      [] key = "real" -> "NumberType"
      [] key = "decimal" -> "DecimalType"
      [] key = "bool" -> "BooleanType"
      [] key = "datetime" -> "DateTimeType"
      [] key = "timespan" -> "StringType"
      [] key = "dynamic" -> "StringType"

\* _map_column_type that gives a dynamic column the object type
MapColumnTypeDynamicObject(column_type) ==
    IF Lower(column_type) = "dynamic" THEN "ObjectType"
    ELSE IF Lower(column_type) \in MappedTypes
    THEN type_mapping(Lower(column_type))
    ELSE "StringType"

\* _map_column_type: type_mapping.get(column_type.lower(), th.StringType())
_map_column_type(column_type) ==
    IF Lower(column_type) \in MappedTypes
    THEN type_mapping(Lower(column_type))
    ELSE "StringType"

\* zip(column_names, column_types) as th.Property(name, singer_type) each
Properties(table) ==
    [k \in 1..Min2(Len(table.columns), Len(table.columns_types)) |->
        [name |-> table.columns[k],
         type |-> _map_column_type(table.columns_types[k])]]

\* PropertiesList.to_dict(): the properties keyed by name, so a name that
\* occurs twice keeps its first place and its last type
RECURSIVE to_dict(_, _)
to_dict(props, acc) ==
    IF props = <<>> THEN acc
    ELSE LET p == Head(props)
             at == {i \in 1..Len(acc) : acc[i].name = p.name}
         IN  IF at = {}
             THEN to_dict(Tail(props), Append(acc, p))
             ELSE to_dict(Tail(props), [acc EXCEPT ![CHOOSE i \in at : TRUE] = p])

\* _generate_schema_from_results that reads the columns of the last table
GenerateSchemaFromLastTable(tables) ==
    IF tables = <<>> THEN <<>>
    ELSE to_dict(Properties(tables[Len(tables)]), <<>>)

\* _generate_schema_from_results: no tables give the empty schema, else the
\* schema comes from the columns of the first table alone
_generate_schema_from_results(tables) ==
    IF tables = <<>> THEN <<>>
    ELSE to_dict(Properties(tables[1]), <<>>)

\* a table with two dynamic columns whose values are objects and lists of
\* strings
TDyn ==
    [columns |-> <<"id", "properties", "tags">>,
     columns_types |-> <<"int", "dynamic", "dynamic">>,
     rows |-> << <<"1", "{key1: value1}", "[tag1, tag2]">>,
                 <<"2", "{key2: value2}", "[tag3]">> >>]

\* the same columns and declared types over other rows
TDynScalar ==
    [columns |-> <<"id", "properties", "tags">>,
     columns_types |-> <<"int", "dynamic", "dynamic">>,
     rows |-> << <<"9", "plain", "text">> >>]

\* the lists of tables the schema is inferred from
SchemaTableLists ==
    {<<>>, <<TDyn>>, <<TDynScalar>>, <<T0>>, <<T1, T0, T2>>, <<T2, TDyn>>}

(***************************************************************************)
(* The query definition's "query": absent, None or a string.               *)
(***************************************************************************)
QAbsent == [k |-> "absent", s |-> ""]
QNull == [k |-> "null", s |-> ""]
QStr(s) == [k |-> "str", s |-> s]

\* getattr(self, "query_config", {}).get("query", "")
GetQuery(qc) == IF qc.query.k = "absent" THEN QStr("") ELSE qc.query

\* NoQuery that takes the empty string for a query
NoQueryOnlyMissing(q) == q.k # "str"

\* "not query": None and the empty string are falsy
NoQuery(q) == q.k # "str" \/ q.s = ""

\* a logger call: level, the message's fixed text, and the values the
\* f-string interpolates (the stream name, the chunk's bounds, the exception)
LogEntry(level, msg, name, chunk, exc) ==
    [level |-> level, msg |-> msg, name |-> name, chunk |-> chunk, exc |-> exc]

(***************************************************************************)
(* Initial states.                                                         *)
(***************************************************************************)
StreamName == "test_stream"

\* self._schema = None, as __init__ leaves it (client.py 45)
NoSchema == [set |-> FALSE, fields |-> <<>>]

\* a schema held in self._schema: the ordered fields [name, type]
SomeSchema(fields) == [set |-> TRUE, fields |-> fields]

GenInit ==
    /\ pc = "start"
    /\ start_time = NoneDt
    /\ end_time = NoneDt
    /\ chunk_days = Null
    /\ chunks = <<>>
    /\ idx = 0
    /\ response = NoResponse
    /\ ti = 0
    /\ ri = 0
    /\ calls = <<>>
    /\ responses = <<>>
    /\ emitted = <<>>
    /\ log = <<>>
    /\ error = ""
    /\ _schema = NoSchema
    /\ probes = <<>>
    /\ returned = <<>>
    /\ schema_error = ""

NoCall == [op |-> "none", start |-> NoneDt, end |-> NoneDt, d |-> Null,
           err |-> "", chunks |-> <<>>,
           arg |-> "", typ |-> "", tables |-> <<>>, schema |-> <<>>]

\* replication_key and what get_starting_timestamp returns for it: without
\* a replication key the method is not called
KeyAndWatermark(wms) ==
    {<<"", NoneDt>>} \cup {<<"TimeGenerated", w>> : w \in wms}

\* SpecFn: the inputs of _calculate_timespan
FnWatermarks ==
    {NoneDt, Utc(Day), Naive(Day + 30), Dt(MaxDay * Day + 90, TRUE, 60)}

FnStartDates ==
    {NoStartDate, NullStartDate,
     StrStartDate(Day, "Z"), StrStartDate(Day + 15, ""),
     StrStartDate(2 * Day, "+01:00"),
     DtStartDate(Naive(Day)), DtStartDate(Dt(Day, TRUE, 60))}

FnTimespanDays == {Absent, Null} \cup {IntV(n) : n \in -1..MaxWidth}

FnNows == {MaxDay * Day + LagMinutes, MaxDay * Day + 7}

InitFn ==
    /\ \E kw \in KeyAndWatermark(FnWatermarks) :
          replication_key = kw[1] /\ watermark = kw[2]
    /\ config \in [start_date : FnStartDates]
    /\ query_config \in [name : {StreamName}, query : {QStr("q")},
                         timespan_days : FnTimespanDays,
                         chunk_size_days : {Absent}]
    /\ now \in FnNows
    /\ fn = NoCall
    /\ GenInit

\* Spec: the configurations get_records runs under
RunWatermarks ==
    {NoneDt, Utc((MaxDay - 3) * Day), Dt(MaxDay * Day + 90, TRUE, 60)}

RunStartDates == {NoStartDate, StrStartDate((MaxDay - 1) * Day + 600, "Z")}

RunTimespanDays == {Absent, IntV(MaxWidth)}

RunChunkSizeDays == {Absent, Null} \cup {IntV(n) : n \in 0..MaxWidth}

RunQueries == {QAbsent, QNull, QStr(""), QStr("q")}

Init ==
    /\ \E kw \in KeyAndWatermark(RunWatermarks) :
          replication_key = kw[1] /\ watermark = kw[2]
    /\ config \in [start_date : RunStartDates]
    /\ query_config \in [name : {StreamName}, query : RunQueries,
                         timespan_days : RunTimespanDays,
                         chunk_size_days : RunChunkSizeDays]
    /\ now = MaxDay * Day + LagMinutes
    /\ fn = NoCall
    /\ GenInit

(***************************************************************************)
(* SpecFn: the pure methods applied to drawn inputs.                       *)
(***************************************************************************)
ChunkStarts ==
    {Utc(0), Utc(Day), Dt(Day + 60, TRUE, 60), Utc(2 * Day + 100),
     Utc(MaxDay * Day), Utc((MaxDay + 1) * Day)}

ChunkEnds == {Utc(MaxDay * Day), Utc(MaxDay * Day + 2), Dt(MaxDay * Day, TRUE, -60)}

ChunkDays == {Null} \cup {IntV(n) : n \in -1..MaxWidth}

Call_calculate_timespan ==
    /\ LET r == _calculate_timespan(config, query_config, replication_key,
                                    watermark, now)
       IN  fn' = [NoCall EXCEPT !.op = "calculate_timespan",
                                !.start = r[1], !.end = r[2]]
    /\ UNCHANGED <<cfgVars, genVars, schVars>>

Call_chunk_timespan ==
    /\ \E s \in ChunkStarts, e \in ChunkEnds, d \in ChunkDays :
          LET r == _chunk_timespan(s, e, d)
          IN  fn' = [NoCall EXCEPT !.op = "chunk_timespan",
                                   !.start = s, !.end = e, !.d = d,
                                   !.err = r.err, !.chunks = r.chunks]
    /\ UNCHANGED <<cfgVars, genVars, schVars>>

Call_map_column_type ==
    /\ \E column_type \in DeclaredTypes :
          fn' = [NoCall EXCEPT !.op = "map_column_type",
                               !.arg = column_type,
                               !.typ = _map_column_type(column_type)]
    /\ UNCHANGED <<cfgVars, genVars, schVars>>

Call_generate_schema_from_results ==
    /\ \E tables \in SchemaTableLists :
          fn' = [NoCall EXCEPT !.op = "generate_schema_from_results",
                               !.tables = tables,
                               !.schema = _generate_schema_from_results(tables)]
    /\ UNCHANGED <<cfgVars, genVars, schVars>>

NextFn ==
    \/ Call_calculate_timespan
    \/ Call_chunk_timespan
    \/ Call_map_column_type
    \/ Call_generate_schema_from_results

SpecFn == InitFn /\ [][NextFn]_vars

(***************************************************************************)
(* Spec: get_records (client.py 215-269), a generator.  Each action is one *)
(* stretch of its code; the consumer drives it by pulling (Resume) or      *)
(* abandons it (Close).                                                    *)
(*   pc = "start"    created, not yet pulled                               *)
(*        "loop"     at the head of "for chunk_start, chunk_end in chunks" *)
(*        "rows"     inside the loops over the response's tables and rows  *)
(*        "yielded"  suspended at a yield, the record handed over          *)
(*        "done"     returned; "raised": an exception left it;             *)
(*        "closed"   abandoned by the consumer at a yield                  *)
(***************************************************************************)
\* the first pull runs lines 225-237: no query logs and returns; else the
\* timespan is computed and split, and a None chunk size raises TypeError
Begin ==
    /\ pc = "start"
    /\ LET query == GetQuery(query_config)
           ts == _calculate_timespan(config, query_config, replication_key,
                                     watermark, now)
           cd == GetChunkSizeDays(query_config)
           r == _chunk_timespan(ts[1], ts[2], cd)
       IN  IF NoQuery(query)
           THEN /\ log' = Append(log, LogEntry("error", "No query configured for stream",
                                               "", <<>>, ""))
                /\ pc' = "done"
                /\ UNCHANGED <<start_time, end_time, chunk_days, chunks, idx, error>>
           ELSE /\ start_time' = ts[1]
                /\ end_time' = ts[2]
                /\ chunk_days' = cd
                /\ chunks' = r.chunks
                /\ idx' = 1
                /\ error' = r.err
                /\ pc' = IF r.err = "" THEN "loop" ELSE "raised"
                /\ log' = log
    /\ UNCHANGED <<cfgVars, schVars, fn, response, ti, ri, calls, responses, emitted>>

\* lines 240-248: the info log, then client.query_workspace for chunks[idx]
QueryLog ==
    Append(log, LogEntry("info", "Querying", query_config.name, chunks[idx], ""))

\* QueryCall that walks the chunks from the newest to the oldest
QueryCallReversed ==
    [query |-> GetQuery(query_config).s,
     timespan |-> chunks[Len(chunks) + 1 - idx]]

QueryCall ==
    [query |-> GetQuery(query_config).s, timespan |-> chunks[idx]]

\* "for chunk_start, chunk_end in chunks" has a next chunk
HasChunk == idx <= Len(chunks)

\* "for table in ..." is exhausted
TablesDone(tables, t) == t > Len(tables)

\* "for row in table.rows" is exhausted
RowsDone(table, r) == r > Len(table.rows)

\* the call answers with status SUCCESS: iterate response.tables
QuerySuccess ==
    /\ pc = "loop" /\ HasChunk
    /\ \E resp \in Responses :
          /\ resp.status = "SUCCESS"
          /\ response' = resp
          /\ responses' = Append(responses, resp)
    /\ calls' = Append(calls, QueryCall)
    /\ log' = QueryLog
    /\ ti' = 1 /\ ri' = 1
    /\ pc' = "rows"
    /\ UNCHANGED <<cfgVars, schVars, fn, start_time, end_time, chunk_days, chunks, idx,
                   emitted, error>>

\* the call answers with status PARTIAL: warn, iterate response.partial_data
QueryPartial ==
    /\ pc = "loop" /\ HasChunk
    /\ \E resp \in Responses :
          /\ resp.status = "PARTIAL"
          /\ response' = resp
          /\ responses' = Append(responses, resp)
    /\ calls' = Append(calls, QueryCall)
    /\ log' = Append(QueryLog, LogEntry("warning", "Partial results",
                                        query_config.name, chunks[idx], ""))
    /\ ti' = 1 /\ ri' = 1
    /\ pc' = "rows"
    /\ UNCHANGED <<cfgVars, schVars, fn, start_time, end_time, chunk_days, chunks, idx,
                   emitted, error>>

\* the call answers with any other status: neither branch of the if/elif
\* runs, and the for loop goes on to the next chunk
QueryOtherStatus ==
    /\ pc = "loop" /\ HasChunk
    /\ \E resp \in Responses :
          /\ resp.status = "FAILURE"
          /\ response' = resp
          /\ responses' = Append(responses, resp)
    /\ calls' = Append(calls, QueryCall)
    /\ log' = QueryLog
    /\ idx' = idx + 1
    /\ pc' = "loop"
    /\ UNCHANGED <<cfgVars, schVars, fn, start_time, end_time, chunk_days, chunks, ti, ri,
                   emitted, error>>

\* QueryHttpError that logs the error and goes on to the next chunk
QueryHttpErrorSwallowed ==
    /\ pc = "loop" /\ HasChunk
    /\ \E resp \in Responses :
          /\ resp.status = "HttpResponseError"
          /\ response' = resp
          /\ responses' = Append(responses, resp)
    /\ calls' = Append(calls, QueryCall)
    /\ log' = Append(QueryLog, LogEntry("error", "Error querying",
                                        query_config.name, <<>>, "HttpResponseError"))
    /\ idx' = idx + 1
    /\ pc' = "loop"
    /\ UNCHANGED <<cfgVars, schVars, fn, start_time, end_time, chunk_days, chunks, ti, ri,
                   emitted, error>>

\* the call raises HttpResponseError: "except HttpResponseError" logs the
\* stream name and the exception, and re-raises
QueryHttpError ==
    /\ pc = "loop" /\ HasChunk
    /\ \E resp \in Responses :
          /\ resp.status = "HttpResponseError"
          /\ response' = resp
          /\ responses' = Append(responses, resp)
    /\ calls' = Append(calls, QueryCall)
    /\ log' = Append(QueryLog, LogEntry("error", "Error querying",
                                        query_config.name, <<>>, "HttpResponseError"))
    /\ error' = "HttpResponseError"
    /\ pc' = "raised"
    /\ UNCHANGED <<cfgVars, schVars, fn, start_time, end_time, chunk_days, chunks, idx, ti, ri,
                   emitted>>

\* the call raises an exception that is no HttpResponseError: no handler
\* matches, it leaves the generator unlogged
QueryOtherError ==
    /\ pc = "loop" /\ HasChunk
    /\ \E resp \in Responses :
          /\ resp.status = "ServiceRequestError"
          /\ response' = resp
          /\ responses' = Append(responses, resp)
          /\ error' = resp.status
    /\ calls' = Append(calls, QueryCall)
    /\ log' = QueryLog
    /\ pc' = "raised"
    /\ UNCHANGED <<cfgVars, schVars, fn, start_time, end_time, chunk_days, chunks, idx, ti, ri,
                   emitted>>

\* lines 255-256 and 264-265: the row becomes a record and is yielded
Yield ==
    /\ pc = "rows"
    /\ LET tables == IteratedTables(response)
       IN  /\ ~TablesDone(tables, ti)
           /\ ~RowsDone(tables[ti], ri)
           /\ emitted' = Append(emitted,
                  [chunk |-> idx,
                   record |-> Record(tables[ti].columns, tables[ti].rows[ri])])
    /\ pc' = "yielded"
    /\ UNCHANGED <<cfgVars, schVars, fn, start_time, end_time, chunk_days, chunks, idx,
                   response, ti, ri, calls, responses, log, error>>

\* the consumer pulls again: the generator resumes after the yield
Resume ==
    /\ pc = "yielded"
    /\ ri' = ri + 1
    /\ pc' = "rows"
    /\ UNCHANGED <<cfgVars, schVars, fn, start_time, end_time, chunk_days, chunks, idx,
                   response, ti, calls, responses, emitted, log, error>>

\* the consumer stops pulling: GeneratorExit at the yield, which
\* "except HttpResponseError" does not catch
Close ==
    /\ pc = "yielded"
    /\ pc' = "closed"
    /\ UNCHANGED <<cfgVars, schVars, fn, start_time, end_time, chunk_days, chunks, idx,
                   response, ti, ri, calls, responses, emitted, log, error>>

\* the rows of a table are exhausted: on to the next table
NextTable ==
    /\ pc = "rows"
    /\ LET tables == IteratedTables(response)
       IN  /\ ~TablesDone(tables, ti)
           /\ RowsDone(tables[ti], ri)
    /\ ti' = ti + 1
    /\ ri' = 1
    /\ UNCHANGED <<cfgVars, schVars, fn, pc, start_time, end_time, chunk_days, chunks, idx,
                   response, calls, responses, emitted, log, error>>

\* the tables are exhausted: on to the next chunk
EndChunk ==
    /\ pc = "rows"
    /\ TablesDone(IteratedTables(response), ti)
    /\ idx' = idx + 1
    /\ pc' = "loop"
    /\ UNCHANGED <<cfgVars, schVars, fn, start_time, end_time, chunk_days, chunks,
                   response, ti, ri, calls, responses, emitted, log, error>>

\* the chunks are exhausted: the generator returns
Return ==
    /\ pc = "loop" /\ ~HasChunk
    /\ pc' = "done"
    /\ UNCHANGED <<cfgVars, schVars, fn, start_time, end_time, chunk_days, chunks, idx,
                   response, ti, ri, calls, responses, emitted, log, error>>

Next ==
    \/ Begin
    \/ QuerySuccess
    \/ QueryPartial
    \/ QueryOtherStatus
    \/ QueryHttpError
    \/ QueryOtherError
    \/ Yield
    \/ Resume
    \/ Close
    \/ NextTable
    \/ EndChunk
    \/ Return

Spec == Init /\ [][Next]_vars

(***************************************************************************)
(* SpecSchema: the schema property and _generate_schema (streams.py 32-80) *)
(* of one stream, its accesses interleaved with the steps of get_records.  *)
(***************************************************************************)
\* the accesses to the schema property a run makes at most
MaxAccesses == 3

\* timedelta(hours=1), in minutes
ProbeWindow == 60

\* what the probe meets: the client cannot be built (self.client raises
\* before any query is sent), or query_workspace answers or raises
ProbeOutcomes ==
    {[status |-> "SUCCESS", tables |-> tl, partial_data |-> <<>>] :
        tl \in SchemaTableLists}
    \cup {[status |-> "PARTIAL", tables |-> <<>>, partial_data |-> tl] :
             tl \in SchemaTableLists}
    \cup {[status |-> s, tables |-> <<>>, partial_data |-> <<>>] :
             s \in {"FAILURE", "HttpResponseError", "ServiceRequestError",
                    "ClientConstructionError"}}

\* the outcomes in which the call or the making of its client raises
ProbeRaises ==
    {"HttpResponseError", "ServiceRequestError", "ClientConstructionError"}

\* the probe query: the stream's query over the last hour
ProbeCall(qc, nw) ==
    [query |-> GetQuery(qc).s, timespan |-> <<Utc(nw - ProbeWindow), Utc(nw)>>]

\* _generate_schema with "except HttpResponseError" in place of
\* "except Exception"
GenerateSchemaNarrowExcept(qc, outcome) ==
    IF NoQuery(GetQuery(qc))
    THEN [fields |-> <<>>, log |-> <<>>, probed |-> FALSE, status |-> "", err |-> ""]
    ELSE IF outcome.status = "HttpResponseError"
    THEN [fields |-> <<>>,
          log |-> <<LogEntry("warning", "Error generating schema", qc.name,
                             <<>>, outcome.status)>>,
          probed |-> TRUE, status |-> outcome.status, err |-> ""]
    ELSE IF outcome.status \in ProbeRaises
    THEN [fields |-> <<>>, log |-> <<>>,
          probed |-> outcome.status # "ClientConstructionError",
          status |-> outcome.status, err |-> outcome.status]
    ELSE IF outcome.status \in {"SUCCESS", "PARTIAL"}
    THEN [fields |-> _generate_schema_from_results(IteratedTables(outcome)),
          log |-> <<>>, probed |-> TRUE, status |-> outcome.status, err |-> ""]
    ELSE [fields |-> <<>>,
          log |-> <<LogEntry("warning", "Failed to get schema", qc.name,
                             <<>>, outcome.status)>>,
          probed |-> TRUE, status |-> outcome.status, err |-> ""]

\* _generate_schema: no query gives the empty schema at once; an exception
\* of the probe is logged as a warning and gives the empty schema; SUCCESS
\* and PARTIAL give the schema of tables or partial_data; any other status
\* is logged as a warning and gives the empty schema.  probed: whether
\* query_workspace was called; err: the exception that leaves the method
_generate_schema(qc, outcome) ==
    IF NoQuery(GetQuery(qc))
    THEN [fields |-> <<>>, log |-> <<>>, probed |-> FALSE, status |-> "", err |-> ""]
    ELSE IF outcome.status \in ProbeRaises
    THEN [fields |-> <<>>,
          log |-> <<LogEntry("warning", "Error generating schema", qc.name,
                             <<>>, outcome.status)>>,
          probed |-> outcome.status # "ClientConstructionError",
          status |-> outcome.status, err |-> ""]
    ELSE IF outcome.status \in {"SUCCESS", "PARTIAL"}
    THEN [fields |-> _generate_schema_from_results(IteratedTables(outcome)),
          log |-> <<>>, probed |-> TRUE, status |-> outcome.status, err |-> ""]
    ELSE [fields |-> <<>>,
          log |-> <<LogEntry("warning", "Failed to get schema", qc.name,
                             <<>>, outcome.status)>>,
          probed |-> TRUE, status |-> outcome.status, err |-> ""]

\* SchemaIsSet that takes an empty schema for a missing one
SchemaIsSetNonEmpty(s) == s.set /\ s.fields # <<>>

\* "self._schema is None" is false: a schema, empty or not, is held
SchemaIsSet(s) == s.set

\* an access to the schema property that finds no schema held: it runs
\* _generate_schema and keeps the result
SchemaFirstAccess ==
    /\ ~SchemaIsSet(_schema)
    /\ schema_error = ""
    /\ Len(returned) < MaxAccesses
    /\ \E outcome \in ProbeOutcomes :
          LET r == _generate_schema(query_config, outcome)
          IN  /\ probes' = IF r.probed
                           THEN Append(probes, [call |-> ProbeCall(query_config, now),
                                                status |-> r.status,
                                                response |-> outcome])
                           ELSE probes
              /\ log' = log \o r.log
              /\ IF r.err = ""
                 THEN /\ _schema' = SomeSchema(r.fields)
                      /\ returned' = Append(returned,
                                        [fields |-> r.fields, via |-> "inferred",
                                         status |-> r.status])
                      /\ UNCHANGED schema_error
                 ELSE /\ schema_error' = r.err
                      /\ UNCHANGED <<_schema, returned>>
    /\ UNCHANGED <<cfgVars, fn, pc, start_time, end_time, chunk_days, chunks,
                   idx, response, ti, ri, calls, responses, emitted, error>>

\* an access that finds a schema held returns it
SchemaCachedAccess ==
    /\ SchemaIsSet(_schema)
    /\ schema_error = ""
    /\ Len(returned) < MaxAccesses
    /\ returned' = Append(returned, [fields |-> _schema.fields, via |-> "cached",
                                     status |-> ""])
    /\ UNCHANGED <<cfgVars, fn, genVars, _schema, probes, schema_error>>

\* one stream with a replication key and a bookmark two days before the
\* end of the interval, with and without a query
InitSchema ==
    /\ replication_key = "TimeGenerated"
    /\ watermark = Utc((MaxDay - 2) * Day)
    /\ config = [start_date |-> NoStartDate]
    /\ query_config \in [name : {StreamName}, query : {QStr(""), QStr("q")},
                         timespan_days : {Absent},
                         chunk_size_days : {Absent}]
    /\ now = MaxDay * Day + LagMinutes
    /\ fn = NoCall
    /\ GenInit

NextSchema ==
    \/ SchemaFirstAccess
    \/ SchemaCachedAccess
    \/ Next

SpecSchema == InitSchema /\ [][NextSchema]_vars

(***************************************************************************)
(* Properties of _chunk_timespan and _calculate_timespan, under SpecFn.    *)
(***************************************************************************)
ChunkCalled == fn.op = "chunk_timespan"
TimespanCalled == fn.op = "calculate_timespan"

\* a watermark exists: a replication key is set and get_starting_timestamp
\* returns a timestamp
HasWatermark == replication_key # "" /\ ~IsNone(watermark)

\* a static start_date is configured
HasStartDate == config.start_date.k \in {"str", "datetime"}

\* the datetime the configured start_date denotes
StartDateValue ==
    IF config.start_date.k = "str" THEN parse(config.start_date)
    ELSE config.start_date.dt

\* d read as UTC when it is naive, itself otherwise
AsUtc(d) == [d EXCEPT !.aware = TRUE]

\* C1: for start < end and a positive chunk_days the result is a non-empty
\* list of chunks, each starting before it ends, the first starting at
\* start, the last ending at end, every chunk ending where the next one
\* starts; five days from day 1 in chunks of two days are the three chunks
\* (1,3), (3,5), (5,6)
C1_ChunksCoverInterval ==
    /\ (ChunkCalled /\ fn.d.k = "int" /\ fn.d.v > 0 /\ DtLt(fn.start, fn.end)) =>
          LET c == fn.chunks
              n == Len(c)
          IN  /\ fn.err = ""
              /\ n >= 1
              /\ DtEq(c[1][1], fn.start)
              /\ DtEq(c[n][2], fn.end)
              /\ \A i \in 1..n : DtLt(c[i][1], c[i][2])
              /\ \A i \in 1..(n - 1) : DtEq(c[i][2], c[i + 1][1])
    /\ (ChunkCalled /\ fn.d = IntV(2) /\ fn.start = Utc(Day) /\ fn.end = Utc(6 * Day)) =>
          fn.chunks = << <<Utc(Day), Utc(3 * Day)>>, <<Utc(3 * Day), Utc(5 * Day)>>,
                         <<Utc(5 * Day), Utc(6 * Day)>> >>

\* C1 witness: an interval split into three chunks, the last one clamped
C1_Witness ==
    /\ ChunkCalled /\ fn.d = IntV(2)
    /\ fn.start = Utc(Day) /\ fn.end = Utc(6 * Day)
    /\ Len(fn.chunks) = 3
    /\ fn.chunks[3] = <<Utc(5 * Day), Utc(6 * Day)>>

\* C2: with a replication key and a watermark W the start is W (stamped UTC
\* when W is naive), whatever start_date and timespan_days are
C2_WatermarkWins ==
    (TimespanCalled /\ HasWatermark) => fn.start = AsUtc(watermark)

\* C2 witness: a watermark returned while both a start_date and a
\* timespan_days are configured
C2_Witness ==
    /\ TimespanCalled /\ HasWatermark /\ HasStartDate
    /\ query_config.timespan_days = IntV(2)
    /\ watermark = Utc(Day)
    /\ fn.start = Utc(Day)

\* C3 as claimed, for a lookback of at least one day: without watermark and
\* start_date, a configured timespan_days = N gives start = end - N days,
\* end being now - 5 minutes
C3_LookbackClaim ==
    (TimespanCalled /\ ~HasWatermark /\ ~HasStartDate
        /\ query_config.timespan_days.k = "int"
        /\ query_config.timespan_days.v >= 1) =>
       /\ fn.end = Utc(now - 5)
       /\ fn.start = DtPlus(fn.end, -(query_config.timespan_days.v * Day))

\* C4 as claimed: without watermark, a configured start_date D gives
\* start = D, a naive D read as UTC, whatever timespan_days is
C4_StartDateClaim ==
    (TimespanCalled /\ ~HasWatermark /\ HasStartDate) =>
       fn.start = AsUtc(StartDateValue)

\* C5: without watermark, start_date and timespan_days the start is one day
\* before the returned end
C5_DefaultOneDay ==
    (TimespanCalled /\ ~HasWatermark /\ ~HasStartDate
        /\ query_config.timespan_days.k \in {"absent", "null"}) =>
       fn.start = DtPlus(fn.end, -1440)

\* C5 witness: nothing configured, the default applied
C5_Witness ==
    /\ TimespanCalled /\ replication_key = ""
    /\ config.start_date.k = "absent"
    /\ query_config.timespan_days.k = "absent"
    /\ fn.start = Utc(now - 5 - 1440)

\* C6: in every branch the returned end is the timezone-aware instant
\* now - 5 minutes
C6_EndIsNowMinusLag ==
    TimespanCalled => (fn.end.aware /\ fn.end.off = 0 /\ fn.end.wall = now - 5)

\* C6 witness: the watermark branch, with a start_date configured as well
C6_Witness ==
    /\ TimespanCalled /\ HasWatermark /\ HasStartDate
    /\ fn.end = Utc(now - 5)
    /\ fn.start # DtPlus(fn.end, -1440)

\* C7: start >= end gives the empty list for any int chunk_days, and
\* start < end with chunk_days <= 0 gives the single chunk (start, end);
\* neither raises
C7_DegenerateInput ==
    /\ (ChunkCalled /\ fn.d.k = "int" /\ DtGe(fn.start, fn.end)) =>
          (fn.err = "" /\ fn.chunks = <<>>)
    /\ (ChunkCalled /\ fn.d.k = "int" /\ fn.d.v <= 0 /\ DtLt(fn.start, fn.end)) =>
          (fn.err = "" /\ fn.chunks = << <<fn.start, fn.end>> >>)

\* C7 witness: an empty interval split with a non-positive chunk size
C7_Witness ==
    /\ ChunkCalled /\ fn.d = IntV(0)
    /\ Instant(fn.start) = Instant(fn.end)
    /\ fn.err = "" /\ fn.chunks = <<>>

(***************************************************************************)
(* Properties of get_records, under Spec.                                  *)
(***************************************************************************)
\* the records a list of tables holds, table by table and row by row
TableRecords(table) ==
    [j \in 1..Len(table.rows) |-> Record(table.columns, table.rows[j])]

RECURSIVE AllRecords(_)
AllRecords(tl) ==
    IF tl = <<>> THEN <<>> ELSE TableRecords(Head(tl)) \o AllRecords(Tail(tl))

\* the records handed to the consumer while chunk i was processed
EmittedFor(i) == SelectSeq(emitted, LAMBDA e : e.chunk = i)

\* the rows the i-th call's answer carries in the tables of its status
RowsOf(i) ==
    IF responses[i].status = "SUCCESS" THEN RowCount(responses[i].tables)
    ELSE IF responses[i].status = "PARTIAL" THEN RowCount(responses[i].partial_data)
    ELSE 0

\* the calls whose answer still holds rows not handed to the consumer
InFlight == {i \in 1..Len(calls) : Len(EmittedFor(i)) < RowsOf(i)}

TransportErrors == {"HttpResponseError", "ServiceRequestError"}

\* C8: the i-th transport call carries exactly the i-th chunk as timespan,
\* the calls go forward in time, every call but the last has had all the
\* rows of its answer handed to the consumer, and at most one answer holds
\* rows not yet handed over
C8_ChunksInOrder ==
    /\ Len(calls) = Len(responses)
    /\ Len(calls) <= Len(chunks)
    /\ \A i \in 1..Len(calls) : calls[i].timespan = chunks[i]
    /\ \A i \in 1..(Len(calls) - 1) :
          /\ DtLt(calls[i].timespan[1], calls[i + 1].timespan[1])
          /\ Len(EmittedFor(i)) = RowsOf(i)
    /\ Cardinality(InFlight) <= 1
    /\ InFlight \subseteq {Len(calls)}

\* C8 witness: the second chunk queried after the three rows of the first
\* were handed over
C8_Witness ==
    /\ Len(calls) = 2
    /\ RowsOf(1) = 3
    /\ Len(EmittedFor(1)) = 3
    /\ calls[2].timespan = chunks[2]

\* C9: a transport call that raised is the last call of the run, its error
\* is the one that leaves the generator, and from then on nothing is called
\* and the records handed over stay as they are
C9_ErrorEndsRun ==
    /\ [](\A i \in 1..Len(responses) :
             responses[i].status \in TransportErrors =>
                /\ i = Len(responses)
                /\ Len(calls) = i
                /\ pc = "raised"
                /\ error = responses[i].status)
    /\ [][/\ pc = "raised" => (pc' = "raised" /\ calls' = calls /\ emitted' = emitted)
          /\ pc' = "raised" => (emitted' = emitted /\ Len(calls') <= Len(calls) + 1)]_vars

\* C9 witness: the second chunk's call raised after records of the first
\* chunk were handed over, with a later chunk left unqueried
C9_Witness ==
    /\ pc = "raised"
    /\ error = "HttpResponseError"
    /\ Len(calls) = 2
    /\ Len(chunks) > 2
    /\ Len(EmittedFor(1)) = 3

\* C10: for every call answered PARTIAL a warning naming the stream and the
\* chunk's bounds is logged; while it is the current call nothing is raised;
\* and once the run is past it every row of every table of its partial data
\* has been handed over as a record, in order, and the loop stands at the
\* chunk after it
C10_PartialYieldsAll ==
    \A i \in 1..Len(responses) :
       responses[i].status = "PARTIAL" =>
          /\ \E k \in 1..Len(log) :
                /\ log[k].level = "warning"
                /\ log[k].name = query_config.name
                /\ log[k].chunk = chunks[i]
          /\ i = Len(responses) => (error = "" /\ pc # "raised")
          /\ (i < Len(responses) \/ pc \in {"loop", "done"}) =>
                /\ idx > i
                /\ Len(EmittedFor(i)) = Len(AllRecords(responses[i].partial_data))
                /\ \A j \in 1..Len(EmittedFor(i)) :
                      EmittedFor(i)[j].record = AllRecords(responses[i].partial_data)[j]

\* C10 witness: a partial answer with three rows in two tables, all handed
\* over, and the next chunk queried
C10_Witness ==
    /\ Len(responses) = 2
    /\ responses[1].status = "PARTIAL"
    /\ Len(AllRecords(responses[1].partial_data)) = 3
    /\ Len(EmittedFor(1)) = 3
    /\ error = ""

\* the rows of a list of tables as <<table, row>> positions, table by table
\* from table t on, and within a table row by row
RECURSIVE RowsFrom(_, _)
RowsFrom(tl, t) ==
    IF t > Len(tl) THEN <<>>
    ELSE [j \in 1..Len(tl[t].rows) |-> <<t, j>>] \o RowsFrom(tl, t + 1)

\* C11: for every call answered SUCCESS that the run is past, exactly one
\* record per row of every table was handed over, in table order and then
\* row order, and each record has the table's column names as keys, the
\* k-th name mapped to the k-th value of the row; the records of the run
\* stand in chunk order, so a run whose every chunk succeeded has emitted
\* the concatenation of the chunks' records
C11_SuccessYieldsRows ==
    /\ \A i \in 1..Len(responses) :
          (/\ responses[i].status = "SUCCESS"
           /\ (i < Len(responses) \/ pc \in {"loop", "done"})) =>
             LET tables == responses[i].tables
                 rows == RowsFrom(tables, 1)
                 em == EmittedFor(i)
             IN  /\ Len(em) = Len(rows)
                 /\ \A n \in 1..Len(rows) :
                       LET table == tables[rows[n][1]]
                           row == table.rows[rows[n][2]]
                       IN  /\ DOMAIN em[n].record =
                                 {table.columns[k] : k \in 1..Len(table.columns)}
                           /\ \A k \in 1..Len(table.columns) :
                                 em[n].record[table.columns[k]] = row[k]
    /\ \A m, n \in 1..Len(emitted) : m < n => emitted[m].chunk <= emitted[n].chunk
    /\ (pc = "done" /\ \A i \in 1..Len(responses) : responses[i].status = "SUCCESS") =>
          /\ Len(responses) = Len(chunks)
          /\ \A i \in 1..Len(chunks) : calls[i].timespan = chunks[i]

\* C11 witness: a finished run of two chunks, both answered SUCCESS with
\* three rows in two tables, six records handed over
C11_Witness ==
    /\ pc = "done"
    /\ Len(responses) = 2
    /\ \A i \in 1..2 : responses[i].status = "SUCCESS"
    /\ Len(emitted) = 6
    /\ Len(EmittedFor(2)) = 3

(***************************************************************************)
(* Properties of the type mapper and of schema inference, under SpecFn.    *)
(***************************************************************************)
MapCalled == fn.op = "map_column_type"

SchemaFromResultsCalled == fn.op = "generate_schema_from_results"

\* the singer type the mapping table of the specification gives a declared
\* type name, read without regard to letter case
MapperTable(name) ==
    CASE name \in {"string", "timespan", "dynamic", "Dynamic"} -> "StringType"
      [] name = "guid" -> "UUIDType"
      [] name \in {"long", "int", "INT"} -> "IntegerType"
      [] name = "real" -> "NumberType"
      [] name = "decimal" -> "DecimalType"
      [] name = "bool" -> "BooleanType"
      [] name \in {"datetime", "DateTime"} -> "DateTimeType"
      [] OTHER -> "StringType"

ColumnValues(table, k) == {table.rows[j][k] : j \in 1..Len(table.rows)}

\* row values that are objects, and row values that are lists of strings
ObjectValues == {"{key1: value1}", "{key2: value2}"}

StringListValues == {"[tag1, tag2]", "[tag3]"}

\* C14: schema generation types a dynamic column from its sampled row
\* values: a column whose values are objects gets the object type with
\* additional properties allowed, a column whose values are lists of
\* strings gets the array-of-string type, and a column whose declared type
\* is not dynamic keeps the type of its declared name whatever its values
C14_DynamicFromSamples ==
    (SchemaFromResultsCalled /\ fn.tables # <<>>) =>
       LET table == fn.tables[1]
       IN  \A k \in 1..Len(table.columns) :
              LET values == ColumnValues(table, k)
              IN  /\ Len(fn.schema) >= k
                  /\ (table.columns_types[k] = "dynamic" /\ values # {}
                        /\ values \subseteq ObjectValues) =>
                        fn.schema[k].type = "ObjectType(additional_properties=True)"
                  /\ (table.columns_types[k] = "dynamic" /\ values # {}
                        /\ values \subseteq StringListValues) =>
                        fn.schema[k].type = "ArrayType(StringType)"
                  /\ table.columns_types[k] # "dynamic" =>
                        fn.schema[k].type = MapperTable(table.columns_types[k])

(***************************************************************************)
(* Properties of the schema property and _generate_schema, under           *)
(* SpecSchema.                                                             *)
(***************************************************************************)
\* the ways a probe fails: the client cannot be built, the query raises, or
\* the answer's status is neither SUCCESS nor PARTIAL
ProbeFailures ==
    {"ClientConstructionError", "HttpResponseError", "ServiceRequestError",
     "FAILURE"}

\* the accesses that ran an inference whose probe failed
FailedInferences ==
    {a \in 1..Len(returned) : returned[a].status \in ProbeFailures}

\* the warnings the schema inference logged for the stream
SchemaWarnings ==
    {k \in 1..Len(log) :
        /\ log[k].level = "warning"
        /\ log[k].name = query_config.name
        /\ log[k].msg \in {"Error generating schema", "Failed to get schema"}}

\* C15: no exception ever leaves a schema access, and every inference
\* whose probe failed (the client could not be built, the query raised, or
\* the status was neither SUCCESS nor PARTIAL) returned the empty schema
\* and logged a warning naming the stream and the failure
C15_ProbeFailureIsEmptySchema ==
    /\ schema_error = ""
    /\ \A a \in FailedInferences :
          /\ returned[a].fields = <<>>
          /\ \E k \in SchemaWarnings : log[k].exc = returned[a].status
    /\ Cardinality(SchemaWarnings) >= Cardinality(FailedInferences)

\* C15 witness: schema accesses after a probe that raised an exception
\* other than HttpResponseError, the empty schema returned and a warning
\* logged
C15_Witness ==
    /\ Len(returned) >= 2
    /\ returned[1].status = "ServiceRequestError"
    /\ returned[1].fields = <<>>
    /\ SchemaWarnings # {}
    /\ schema_error = ""

\* C16: over any sequence of accesses to the schema property the probe
\* query is executed at most once, by the first access; every access
\* returns the schema the first one returned, an empty one included; and
\* no step of get_records touches the held schema or sends a probe
C16_SchemaInferredOnce ==
    /\ [](/\ Len(probes) <= 1
          /\ \A a \in 1..Len(returned) :
                /\ returned[a].fields = returned[1].fields
                /\ a > 1 => returned[a].via = "cached"
          /\ returned # <<>> => _schema = SomeSchema(returned[1].fields)
          /\ probes # <<>> => (returned # <<>> /\ returned[1].via = "inferred"))
    /\ [][(pc' # pc \/ calls' # calls \/ emitted' # emitted \/ idx' # idx)
             => UNCHANGED <<_schema, probes, returned>>]_vars

\* C16 witness: three accesses after a first inference that gave the empty
\* schema, one probe sent, and get_records has queried two chunks since
C16_Witness ==
    /\ Len(returned) = MaxAccesses
    /\ returned[1].status = "FAILURE"
    /\ returned[MaxAccesses].fields = <<>>
    /\ Len(probes) = 1
    /\ Len(calls) = 2

(***************************************************************************)
(* Further properties of get_records, under Spec.                          *)
(***************************************************************************)
\* the query definition carries no query text: the key is absent, None, or
\* the empty string
QueryUnset == query_config.query.k \in {"absent", "null"} \/ query_config.query.s = ""

\* C17: when the stream's query is empty or unset, get_records logs that no
\* query is configured, hands over no record, makes no transport call and
\* raises no exception: once pulled it has returned
C17_NoQueryNoRecords ==
    QueryUnset =>
       /\ emitted = <<>>
       /\ calls = <<>>
       /\ error = ""
       /\ pc \in {"start", "done"}
       /\ pc = "done" =>
             /\ Len(log) = 1
             /\ log[1].level = "error"
             /\ log[1].msg = "No query configured for stream"

\* C17 witness: a finished run of a stream whose query is None
C17_Witness ==
    /\ query_config.query = QNull
    /\ pc = "done"
    /\ Len(log) = 1
    /\ calls = <<>>

\* C18: get_records splits the interval with the chunk width the query
\* definition gives as chunk_size_days, and with a width of one day
\* whenever the definition carries no value for it, the key being absent
\* or None
C18_ChunkWidth ==
    (~QueryUnset /\ pc # "start") =>
       LET given == query_config.chunk_size_days
           width == IF given.k = "int" THEN given.v ELSE 1
       IN  /\ error # "TypeError"
           /\ chunk_days = IntV(width)
           /\ chunks = _chunk_timespan(start_time, end_time, IntV(width)).chunks

\* C19: in a run of get_records that ended without raising no chunk was
\* passed over: every chunk was queried, its answer was SUCCESS or PARTIAL,
\* and the rows of its answer were handed over; a chunk whose call gave
\* neither, an answer with any other status included, is surfaced as an
\* error, so no such chunk lies in a run that returned
C19_NoChunkSkipped ==
    (pc = "done" /\ ~QueryUnset) =>
       /\ Len(calls) = Len(chunks)
       /\ \A i \in 1..Len(chunks) :
             /\ calls[i].timespan = chunks[i]
             /\ responses[i].status \in {"SUCCESS", "PARTIAL"}
             /\ Len(EmittedFor(i)) = RowsOf(i)

\* C20: when a chunk's query fails with HttpResponseError, an error entry
\* that names the stream and the chunk, by its start and its end, is in
\* the log by the time the exception leaves get_records
C20_ErrorLogNamesChunk ==
    (pc = "raised" /\ error = "HttpResponseError") =>
       \E k \in 1..Len(log) :
          /\ log[k].level = "error"
          /\ log[k].name = query_config.name
          /\ log[k].chunk = chunks[Len(calls)]

\* the probes that were answered, SUCCESS or PARTIAL, with a result set
\* holding no rows
EmptyProbes ==
    {p \in 1..Len(probes) :
        /\ probes[p].status \in {"SUCCESS", "PARTIAL"}
        /\ RowCount(IF probes[p].status = "SUCCESS"
                    THEN probes[p].response.tables
                    ELSE probes[p].response.partial_data) = 0}

\* C21: when the probe query returns no rows, schema inference yields the
\* empty schema and logs a warning naming the stream
C21_NoRowsEmptySchema ==
    EmptyProbes # {} =>
       /\ returned # <<>>
       /\ returned[1].fields = <<>>
       /\ SchemaWarnings # {}

(***************************************************************************)
(* A further property of _chunk_timespan, under SpecFn.                    *)
(***************************************************************************)
\* the width of a chunk, in minutes
ChunkWidth(chunk) == Instant(chunk[2]) - Instant(chunk[1])

\* C22: for start < end and a positive chunk_days d the loop ends with a
\* result in which every chunk is non-empty and at most d days wide, every
\* chunk but the last is exactly d days wide, the last is wider than zero
\* and at most d days, and the number of chunks is the ceiling of
\* (end - start) / d days
C22_ChunkWidths ==
    (ChunkCalled /\ fn.d.k = "int" /\ fn.d.v > 0 /\ DtLt(fn.start, fn.end)) =>
       LET c == fn.chunks
           n == Len(c)
           width == fn.d.v * Day
           span == Instant(fn.end) - Instant(fn.start)
       IN  /\ fn.err = ""
           /\ \A i \in 1..n : ChunkWidth(c[i]) > 0 /\ ChunkWidth(c[i]) <= width
           /\ \A i \in 1..(n - 1) : ChunkWidth(c[i]) = width
           /\ n = (span + width - 1) \div width

\* C22 witness: an interval that is not a multiple of the chunk size, split
\* into several chunks of which the last is narrower than the others
C22_Witness ==
    /\ ChunkCalled /\ fn.d.k = "int" /\ fn.d.v = 2
    /\ Len(fn.chunks) >= 2
    /\ ChunkWidth(fn.chunks[1]) = 2 * Day
    /\ ChunkWidth(fn.chunks[Len(fn.chunks)]) < 2 * Day
    /\ ChunkWidth(fn.chunks[Len(fn.chunks)]) % Day # 0

==========================================================================
